---- MODULE Spec2Model ----
(***************************************************************************)
(* typed-pdf: the content-stream operator normalizer of src/src/lib.rs.    *)
(*                                                                         *)
(* normalize_operation_with_font maps a raw instruction (operator name,    *)
(* operand list) and the caller's current font to a typed Operation;       *)
(* decode_string turns the bytes of a string operand into text under the   *)
(* font's encoding.                                                        *)
(*                                                                         *)
(* Representation.  An f32 is the integer number of halves it holds        *)
(* (1.0 is 2, 0.5 is 1), so Integer(1) and Number(1.0) are different       *)
(* primitives that coerce to the same f32.  Text is a sequence of code     *)
(* points.  Option<T> is a sequence of length 0 (None) or 1 (Some).        *)
(***************************************************************************)
EXTENDS Integers, Sequences, FiniteSets, TLC

VARIABLES
    operator,       \* PdfOperation.operator of the instruction
    operands,       \* PdfOperation.operands of the instruction
    current_font,   \* Option<&FontInfo> handed to the call
    result,         \* the Operation returned by the last call
    pc,             \* "ready": call pending, "done": call returned
    first,          \* history: inputs and result of the first call made
    calls           \* history: how many calls have returned

vars == <<operator, operands, current_font, result, pc, first, calls>>

----------------------------------------------------------------------------
(* Bounds of the model *)

MaxInt == 2
MaxOperands == 7
MaxStrLen == 4
MaxArrayLen == 2
MaxCalls == 3

----------------------------------------------------------------------------
(* Option and Result *)

None == <<>>
Some(x) == <<x>>
Ok(v) == [ok |-> TRUE, val |-> v]
Err == [ok |-> FALSE]

----------------------------------------------------------------------------
(* pdf::primitive::Primitive, as far as the normalizer looks at it *)

Integer(n) == [t |-> "Integer", i |-> n]
Number(h) == [t |-> "Number", f |-> h]
Name(s) == [t |-> "Name", name |-> s]
String(b) == [t |-> "String", bytes |-> b]
Array(e) == [t |-> "Array", elems |-> e]
Null == [t |-> "Null"]

\* PrimitiveExt::try_to_f: Integer(i) => Some(i as f32), Number(f) => Some(f),
\* anything else => None.
try_to_f(p) ==
    IF p.t = "Integer" THEN Some(2 * p.i)
    ELSE IF p.t = "Number" THEN Some(p.f)
    ELSE None

\* ns.iter().filter_map(|n| n.try_to_f()).collect::<Vec<_>>()
RECURSIVE filter_map_try_to_f(_)
filter_map_try_to_f(ns) ==
    IF ns = <<>> THEN <<>>
    ELSE try_to_f(Head(ns)) \o filter_map_try_to_f(Tail(ns))

----------------------------------------------------------------------------
(* PdfString::as_str on the no-font path: the bytes read as UTF-8 *)

IsCont(b) == b \in 128..191

RECURSIVE as_str(_)
as_str(b) ==
    IF b = <<>> THEN Ok(<<>>)
    ELSE
        LET b0 == Head(b)
            n == Len(b)
            step(k, cp) ==
                LET rest == as_str(SubSeq(b, k + 1, n))
                IN  IF rest.ok THEN Ok(<<cp>> \o rest.val) ELSE Err
        IN  IF b0 < 128 THEN step(1, b0)
            ELSE IF b0 \in 194..223 /\ n >= 2 /\ IsCont(b[2])
                THEN step(2, (b0 - 192) * 64 + (b[2] - 128))
            ELSE IF b0 \in 224..239 /\ n >= 3 /\ IsCont(b[2]) /\ IsCont(b[3])
                    /\ (b0 = 224 => b[2] >= 160) /\ (b0 = 237 => b[2] <= 159)
                THEN step(3, (b0 - 224) * 4096 + (b[2] - 128) * 64 + (b[3] - 128))
            ELSE IF b0 \in 240..244 /\ n >= 4 /\ IsCont(b[2]) /\ IsCont(b[3])
                    /\ IsCont(b[4])
                    /\ (b0 = 240 => b[2] >= 144) /\ (b0 = 244 => b[2] <= 143)
                THEN step(4, (b0 - 240) * 262144 + (b[2] - 128) * 4096
                                + (b[3] - 128) * 64 + (b[4] - 128))
            ELSE Err

----------------------------------------------------------------------------
(* decode_string *)

\* cf.cmap.get(&cp): Some(&String) or None
cmap_get(cmap, cp) == IF cp \in DOMAIN cmap THEN Some(cmap[cp]) ELSE None

\* windows(2) written as chunks(2): the pairs at bytes 0-1, 2-3, ..., and a
\* last chunk of one byte when the length is odd
chunks(bytes) ==
    [k \in 1..((Len(bytes) + 1) \div 2) |->
        SubSeq(bytes, 2 * k - 1, IF 2 * k <= Len(bytes) THEN 2 * k ELSE Len(bytes))]

\* text.as_bytes().windows(2): every pair of adjacent bytes, in order
windows(bytes) ==
    IF Len(bytes) < 2 THEN <<>>
    ELSE [k \in 1..(Len(bytes) - 1) |-> SubSeq(bytes, k, k + 1)]

\* w.try_into(): a &[u8] to [u8; 2], Err unless it holds exactly two bytes
try_into(w) == IF Len(w) = 2 THEN Some(w) ELSE None

\* u16::from_be_bytes
from_be_bytes(w) == w[1] * 256 + w[2]

\* a panic (unwrap of a None/Err) aborts the call and unwinds through it
Panic == [panic |-> TRUE]
Panicked(r) == "panic" \in DOMAIN r

\* BaseEncoding::IdentityH branch, the body of `for w in ...`:
\* u16::from_be_bytes(w.try_into().unwrap()), cmap.get, push_str
RECURSIVE decode_identity_h(_, _)
decode_identity_h(ws, cmap) ==
    IF ws = <<>> THEN Ok(<<>>)
    ELSE
        LET w == try_into(Head(ws))
        IN  IF w = None THEN Panic
            ELSE
                LET s == cmap_get(cmap, from_be_bytes(w[1]))
                    rest == decode_identity_h(Tail(ws), cmap)
                IN  IF Panicked(rest) THEN Panic
                    ELSE Ok((IF s # None THEN s[1] ELSE <<>>) \o rest.val)

\* decode_single_byte without the else branch: a byte with no cmap entry is
\* dropped
RECURSIVE decode_single_byte_dropping(_, _)
decode_single_byte_dropping(bytes, cmap) ==
    IF bytes = <<>> THEN <<>>
    ELSE
        LET b == Head(bytes)
            s == cmap_get(cmap, b)
        IN  (IF s # None THEN s[1] ELSE <<>>)
                \o decode_single_byte_dropping(Tail(bytes), cmap)

\* every other base encoding: for &b in text.as_bytes()
RECURSIVE decode_single_byte(_, _)
decode_single_byte(bytes, cmap) ==
    IF bytes = <<>> THEN <<>>
    ELSE
        LET b == Head(bytes)
            s == cmap_get(cmap, b)
        IN  (IF s # None THEN s[1] ELSE <<b>>)
                \o decode_single_byte(Tail(bytes), cmap)

\* decode_string that tries the cmap of a font without an encoding before
\* falling back to as_str
decode_string_cmap_first(text, cf) ==
    IF cf = None THEN as_str(text)
    ELSE IF cf[1].encoding = None
        THEN IF DOMAIN cf[1].cmap = {} THEN as_str(text)
             ELSE Ok(decode_single_byte(text, cf[1].cmap))
    ELSE IF cf[1].encoding[1] = "IdentityH"
        THEN decode_identity_h(windows(text), cf[1].cmap)
    ELSE Ok(decode_single_byte(text, cf[1].cmap))

decode_string(text, cf) ==
    IF cf = None THEN as_str(text)
    ELSE IF cf[1].encoding = None THEN as_str(text)
    ELSE IF cf[1].encoding[1] = "IdentityH"
        THEN decode_identity_h(windows(text), cf[1].cmap)
    ELSE Ok(decode_single_byte(text, cf[1].cmap))

----------------------------------------------------------------------------
(* Operation: one record per variant, tagged with the variant's name *)

Unit(variant) == [tag |-> variant]
Unknown(op, ops) == [tag |-> "Unknown", operator |-> op, operands |-> ops]
Named(variant, n) == [tag |-> variant, name |-> n]
OneF(variant, a) == [tag |-> variant, v0 |-> a]
XY(variant, a, b) == [tag |-> variant, x |-> a, y |-> b]

IsF(p) == try_to_f(p) # None
F(p) == try_to_f(p)[1]

----------------------------------------------------------------------------
(* The arms of the match in normalize_operation_with_font.  An arm whose   *)
(* slice pattern does not match falls through to the final `_` arm.        *)

\* ("b", _), ("BT", _), ...: any operands
arm_any(variant, op, ops) == Unit(variant)

\* ("BDC", []), ("BI", []), ...: the empty operand list only
arm_empty(variant, op, ops) ==
    IF ops = <<>> THEN Unit(variant) ELSE Unknown(op, ops)

\* arm_name with the pattern [Primitive::Name(name), ..]: a leading name,
\* whatever follows it
arm_name_leading(variant, op, ops) ==
    IF Len(ops) >= 1 /\ ops[1].t = "Name"
    THEN Named(variant, ops[1].name)
    ELSE Unknown(op, ops)

\* (op, [Primitive::Name(name)])
arm_name(variant, op, ops) ==
    IF Len(ops) = 1 /\ ops[1].t = "Name"
    THEN Named(variant, ops[1].name)
    ELSE Unknown(op, ops)

\* ("G" | "g" | "Tc" | "w", [Number(x)]) then (.., [Integer(x)])
arm_number_or_integer(variant, op, ops) ==
    IF Len(ops) = 1 /\ ops[1].t = "Number" THEN OneF(variant, ops[1].f)
    ELSE IF Len(ops) = 1 /\ ops[1].t = "Integer" THEN OneF(variant, 2 * ops[1].i)
    ELSE Unknown(op, ops)

\* ("M" | "Ts" | "Tw" | "Tz", [x]) with x.try_to_f()
arm_one(variant, op, ops) ==
    IF Len(ops) = 1
    THEN IF IsF(ops[1]) THEN OneF(variant, F(ops[1])) ELSE Unknown(op, ops)
    ELSE Unknown(op, ops)

\* ("l" | "m" | "Td" | "TD", [x, y])
arm_xy(variant, op, ops) ==
    IF Len(ops) = 2
    THEN IF IsF(ops[1]) /\ IsF(ops[2])
         THEN XY(variant, F(ops[1]), F(ops[2]))
         ELSE Unknown(op, ops)
    ELSE Unknown(op, ops)

\* ("c", ns)
arm_c(op, ops) ==
    LET ns == filter_map_try_to_f(ops)
    IN  IF Len(ns) = 6
        THEN [tag |-> "AppendCurvedSegmentToPath",
              x1 |-> ns[1], y1 |-> ns[2], x2 |-> ns[3],
              y2 |-> ns[4], x3 |-> ns[5], y3 |-> ns[6]]
        ELSE Unknown(op, ops)

\* ("cm", ns)
arm_cm(op, ops) ==
    LET ns == filter_map_try_to_f(ops)
    IN  IF Len(ns) = 6
        THEN [tag |-> "ConcatenateMatrixToCurrentTransformationMatrix",
              v0 |-> ns[1], v1 |-> ns[2], v2 |-> ns[3],
              v3 |-> ns[4], v4 |-> ns[5], v5 |-> ns[6]]
        ELSE Unknown(op, ops)

\* the filter_map of the "d" arm: Integer(n) => n as f32, Number(n) => n
RECURSIVE filter_map_dash(_)
filter_map_dash(a) ==
    IF a = <<>> THEN <<>>
    ELSE (IF Head(a).t = "Integer" THEN <<2 * Head(a).i>>
          ELSE IF Head(a).t = "Number" THEN <<Head(a).f>>
          ELSE <<>>) \o filter_map_dash(Tail(a))

\* arm_d without the comparison of lengths: the elements the filter dropped
\* are silently missing from the pattern
arm_d_unchecked(op, ops) ==
    IF Len(ops) = 2 /\ ops[1].t = "Array"
    THEN LET array == filter_map_dash(ops[1].elems)
             phase == try_to_f(ops[2])
         IN  IF phase # None
             THEN [tag |-> "SetLineDashPattern",
                   array |-> array, phase |-> phase[1]]
             ELSE Unknown(op, ops)
    ELSE Unknown(op, ops)

\* ("d", [Primitive::Array(primitive_array), phase])
arm_d(op, ops) ==
    IF Len(ops) = 2 /\ ops[1].t = "Array"
    THEN LET array == filter_map_dash(ops[1].elems)
             phase == try_to_f(ops[2])
         IN  IF phase # None
             THEN IF Len(array) = Len(ops[1].elems)
                  THEN [tag |-> "SetLineDashPattern",
                        array |-> array, phase |-> phase[1]]
                  ELSE Unknown(op, ops)
             ELSE Unknown(op, ops)
    ELSE Unknown(op, ops)

\* ("d0", [wx, wy])
arm_d0(op, ops) ==
    IF Len(ops) = 2
    THEN IF IsF(ops[1]) /\ IsF(ops[2])
         THEN [tag |-> "SetGlyphWidthInType3Font",
               wx |-> F(ops[1]), wy |-> F(ops[2])]
         ELSE Unknown(op, ops)
    ELSE Unknown(op, ops)

\* ("d1", [wx, wy, llx, lly, urx, ury])
arm_d1(op, ops) ==
    IF Len(ops) = 6
    THEN IF \A k \in 1..6 : IsF(ops[k])
         THEN [tag |-> "SetGlyphWidthAndBoundingBoxInType3Font",
               wx |-> F(ops[1]), wy |-> F(ops[2]), llx |-> F(ops[3]),
               lly |-> F(ops[4]), urx |-> F(ops[5]), ury |-> F(ops[6])]
         ELSE Unknown(op, ops)
    ELSE Unknown(op, ops)

\* ("i", [Primitive::Integer(flatness)]): carries the i32 itself
arm_i(op, ops) ==
    IF Len(ops) = 1 /\ ops[1].t = "Integer"
    THEN [tag |-> "SetFlatnessTolerance", flatness |-> ops[1].i]
    ELSE Unknown(op, ops)

\* ("j", [Integer(0)]), ("j", [Integer(1)]), ("j", [Integer(2)])
arm_j(op, ops) ==
    IF Len(ops) = 1 /\ ops[1].t = "Integer" /\ ops[1].i \in 0..2
    THEN [tag |-> "SetLineJoinStyle",
          style |-> CASE ops[1].i = 0 -> "MiterJoin"
                      [] ops[1].i = 1 -> "RoundJoin"
                      [] ops[1].i = 2 -> "BevelJoin"]
    ELSE Unknown(op, ops)

\* ("J", [Integer(0)]), ("J", [Integer(1)]), ("J", [Integer(2)])
arm_J(op, ops) ==
    IF Len(ops) = 1 /\ ops[1].t = "Integer" /\ ops[1].i \in 0..2
    THEN [tag |-> "SetLineCapStyle",
          style |-> CASE ops[1].i = 0 -> "ButtCap"
                      [] ops[1].i = 1 -> "RoundCap"
                      [] ops[1].i = 2 -> "ProjectingSquareCap"]
    ELSE Unknown(op, ops)

\* ("K" | "k", [c, m, y, k])
arm_cmyk(variant, op, ops) ==
    IF Len(ops) = 4
    THEN IF \A n \in 1..4 : IsF(ops[n])
         THEN [tag |-> variant, v0 |-> F(ops[1]), v1 |-> F(ops[2]),
               v2 |-> F(ops[3]), v3 |-> F(ops[4])]
         ELSE Unknown(op, ops)
    ELSE Unknown(op, ops)

\* ("re", [x, y, width, height])
arm_re(op, ops) ==
    IF Len(ops) = 4
    THEN IF \A n \in 1..4 : IsF(ops[n])
         THEN [tag |-> "AppendRectangleToPath", x |-> F(ops[1]), y |-> F(ops[2]),
               width |-> F(ops[3]), height |-> F(ops[4])]
         ELSE Unknown(op, ops)
    ELSE Unknown(op, ops)

\* ("RG" | "rg", [r, g, b])
arm_rgb(variant, op, ops) ==
    IF Len(ops) = 3
    THEN IF \A n \in 1..3 : IsF(ops[n])
         THEN [tag |-> variant, v0 |-> F(ops[1]), v1 |-> F(ops[2]),
               v2 |-> F(ops[3])]
         ELSE Unknown(op, ops)
    ELSE Unknown(op, ops)

\* ("ri", [Primitive::Name(name)]) if name == "AbsoluteColorimetric", ...
arm_ri(op, ops) ==
    IF Len(ops) = 1 /\ ops[1].t = "Name"
        /\ ops[1].name \in {"AbsoluteColorimetric", "RelativeColorimetric",
                            "Saturation", "Perceptual"}
    THEN [tag |-> "SetColorRenderingIntent", intent |-> ops[1].name]
    ELSE Unknown(op, ops)

\* UntypedColor
DeviceGrayCalGrayOrIndexed(a) == [space |-> "DeviceGrayCalGrayOrIndexed", c0 |-> a]
DeviceRGBCalRGBOrLab(a, b, c) ==
    [space |-> "DeviceRGBCalRGBOrLab", c0 |-> a, c1 |-> b, c2 |-> c]
DeviceCMYK(a, b, c, d) ==
    [space |-> "DeviceCMYK", c0 |-> a, c1 |-> b, c2 |-> c, c3 |-> d]

\* arm_sc with the four-operand arm building DeviceCMYK(a, b, c, c)
arm_sc_repeated_component(variant, op, ops) ==
    IF Len(ops) = 1
    THEN IF IsF(ops[1])
         THEN [tag |-> variant, color |-> DeviceGrayCalGrayOrIndexed(F(ops[1]))]
         ELSE Unknown(op, ops)
    ELSE IF Len(ops) = 3
    THEN IF \A n \in 1..3 : IsF(ops[n])
         THEN [tag |-> variant,
               color |-> DeviceRGBCalRGBOrLab(F(ops[1]), F(ops[2]), F(ops[3]))]
         ELSE Unknown(op, ops)
    ELSE IF Len(ops) = 4
    THEN IF \A n \in 1..4 : IsF(ops[n])
         THEN [tag |-> variant,
               color |-> DeviceCMYK(F(ops[1]), F(ops[2]), F(ops[3]), F(ops[3]))]
         ELSE Unknown(op, ops)
    ELSE Unknown(op, ops)

\* ("SC" | "sc", [a]), (.., [a, b, c]), (.., [a, b, c, d])
arm_sc(variant, op, ops) ==
    IF Len(ops) = 1
    THEN IF IsF(ops[1])
         THEN [tag |-> variant, color |-> DeviceGrayCalGrayOrIndexed(F(ops[1]))]
         ELSE Unknown(op, ops)
    ELSE IF Len(ops) = 3
    THEN IF \A n \in 1..3 : IsF(ops[n])
         THEN [tag |-> variant,
               color |-> DeviceRGBCalRGBOrLab(F(ops[1]), F(ops[2]), F(ops[3]))]
         ELSE Unknown(op, ops)
    ELSE IF Len(ops) = 4
    THEN IF \A n \in 1..4 : IsF(ops[n])
         THEN [tag |-> variant,
               color |-> DeviceCMYK(F(ops[1]), F(ops[2]), F(ops[3]), F(ops[4]))]
         ELSE Unknown(op, ops)
    ELSE Unknown(op, ops)

\* arm_scn with the named arm's Unknown built from primitive_cs, the operands
\* before the name, instead of operands
arm_scn_unknown_of_prefix(variant, op, ops) ==
    IF Len(ops) >= 1 /\ ops[Len(ops)].t = "Name"
    THEN LET primitive_cs == SubSeq(ops, 1, Len(ops) - 1)
             cs == filter_map_try_to_f(primitive_cs)
         IN  IF Len(cs) = Len(primitive_cs)
             THEN [tag |-> variant, cs |-> cs, name |-> Some(ops[Len(ops)].name)]
             ELSE Unknown(op, primitive_cs)
    ELSE LET cs == filter_map_try_to_f(ops)
         IN  IF Len(cs) = Len(ops)
             THEN [tag |-> variant, cs |-> cs, name |-> None]
             ELSE Unknown(op, ops)

\* arm_scn without the comparison of cs.len() with primitive_cs.len()
arm_scn_unchecked(variant, op, ops) ==
    IF Len(ops) >= 1 /\ ops[Len(ops)].t = "Name"
    THEN [tag |-> variant,
          cs |-> filter_map_try_to_f(SubSeq(ops, 1, Len(ops) - 1)),
          name |-> Some(ops[Len(ops)].name)]
    ELSE [tag |-> variant, cs |-> filter_map_try_to_f(ops), name |-> None]

\* ("SCN" | "scn", [primitive_cs @ .., Primitive::Name(name)]) then
\* (.., primitive_cs)
arm_scn(variant, op, ops) ==
    IF Len(ops) >= 1 /\ ops[Len(ops)].t = "Name"
    THEN LET primitive_cs == SubSeq(ops, 1, Len(ops) - 1)
             cs == filter_map_try_to_f(primitive_cs)
         IN  IF Len(cs) = Len(primitive_cs)
             THEN [tag |-> variant, cs |-> cs, name |-> Some(ops[Len(ops)].name)]
             ELSE Unknown(op, ops)
    ELSE LET cs == filter_map_try_to_f(ops)
         IN  IF Len(cs) = Len(ops)
             THEN [tag |-> variant, cs |-> cs, name |-> None]
             ELSE Unknown(op, ops)

\* ("Tf", [Name(font), Number(size)]) then ("Tf", [Name(font), Integer(size)])
arm_Tf(op, ops) ==
    IF Len(ops) = 2 /\ ops[1].t = "Name" /\ ops[2].t = "Number"
    THEN [tag |-> "SetTextFontAndSize", font |-> ops[1].name, size |-> ops[2].f]
    ELSE IF Len(ops) = 2 /\ ops[1].t = "Name" /\ ops[2].t = "Integer"
    THEN [tag |-> "SetTextFontAndSize", font |-> ops[1].name,
          size |-> 2 * ops[2].i]
    ELSE Unknown(op, ops)

\* arm_show with unwrap_or_default in place of the fall back to Unknown: a
\* decode error shows the empty text
arm_show_default(variant, op, ops, cf) ==
    IF Len(ops) = 1 /\ ops[1].t = "String"
    THEN LET r == decode_string(ops[1].bytes, cf)
         IN  IF Panicked(r) THEN Panic
             ELSE IF r.ok THEN [tag |-> variant, text |-> r.val]
             ELSE [tag |-> variant, text |-> <<>>]
    ELSE Unknown(op, ops)

\* ("Tj" | "'", [Primitive::String(text)])
arm_show(variant, op, ops, cf) ==
    IF Len(ops) = 1 /\ ops[1].t = "String"
    THEN LET r == decode_string(ops[1].bytes, cf)
         IN  IF Panicked(r) THEN Panic
             ELSE IF r.ok THEN [tag |-> variant, text |-> r.val]
             ELSE Unknown(op, ops)
    ELSE Unknown(op, ops)

\* TextOrGlyphPositioning
Text(s) == [k |-> "Text", text |-> s]
GlyphPositioning(g) == [k |-> "GlyphPositioning", g |-> g]

\* the filter_map of the "TJ" arm
RECURSIVE filter_map_TJ(_, _)
filter_map_TJ(a, cf) ==
    IF a = <<>> THEN Ok(<<>>)
    ELSE LET p == Head(a)
             r == IF p.t = "String" THEN decode_string(p.bytes, cf) ELSE Err
             e == IF p.t = "String"
                  THEN IF r.ok THEN Some(Text(r.val)) ELSE None
                  ELSE IF p.t = "Number" THEN Some(GlyphPositioning(p.f))
                  ELSE IF p.t = "Integer" THEN Some(GlyphPositioning(2 * p.i))
                  ELSE None
             rest == filter_map_TJ(Tail(a), cf)
         IN  IF Panicked(r) \/ Panicked(rest) THEN Panic
             ELSE Ok(e \o rest.val)

\* ("TJ", [Primitive::Array(primitive_array)])
arm_TJ(op, ops, cf) ==
    IF Len(ops) = 1 /\ ops[1].t = "Array"
    THEN LET array == filter_map_TJ(ops[1].elems, cf)
         IN  IF Panicked(array) THEN Panic
             ELSE IF Len(ops[1].elems) = Len(array.val)
             THEN [tag |-> "ShowTextAllowingIndividualGlyphPositioning",
                   array |-> array.val]
             ELSE Unknown(op, ops)
    ELSE Unknown(op, ops)

\* ("TL", [Primitive::Number(leading)])
arm_TL(op, ops) ==
    IF Len(ops) = 1 /\ ops[1].t = "Number"
    THEN OneF("SetTextLeading", ops[1].f)
    ELSE Unknown(op, ops)

\* arm_Tm testing only the diagonal, *a == 1.0 && *d == 1.0
arm_Tm_diagonal_only(op, ops) ==
    LET ns == filter_map_try_to_f(ops)
    IN  IF Len(ns) = 6
        THEN IF ns[1] = 2 /\ ns[4] = 2
             THEN XY("MoveTextPosition", ns[5], ns[6])
             ELSE [tag |-> "SetTextMatrixAndTextLineMatrix",
                   v0 |-> ns[1], v1 |-> ns[2], v2 |-> ns[3],
                   v3 |-> ns[4], v4 |-> ns[5], v5 |-> ns[6]]
        ELSE Unknown(op, ops)

\* ("Tm", ns): 1.0 is 2 halves
arm_Tm(op, ops) ==
    LET ns == filter_map_try_to_f(ops)
    IN  IF Len(ns) = 6
        THEN IF ns[1] = 2 /\ ns[2] = 0 /\ ns[3] = 0 /\ ns[4] = 2
             THEN XY("MoveTextPosition", ns[5], ns[6])
             ELSE [tag |-> "SetTextMatrixAndTextLineMatrix",
                   v0 |-> ns[1], v1 |-> ns[2], v2 |-> ns[3],
                   v3 |-> ns[4], v4 |-> ns[5], v5 |-> ns[6]]
        ELSE Unknown(op, ops)

\* ("Tr", [Integer(0)]) ... ("Tr", [Integer(7)])
arm_Tr(op, ops) ==
    IF Len(ops) = 1 /\ ops[1].t = "Integer" /\ ops[1].i \in 0..7
    THEN [tag |-> "SetTextRenderingMode",
          mode |-> CASE ops[1].i = 0 -> "FillText"
                     [] ops[1].i = 1 -> "StrokeText"
                     [] ops[1].i = 2 -> "FillThenStrokeText"
                     [] ops[1].i = 3 -> "Invisible"
                     [] ops[1].i = 4 -> "FillTextAndAddToPathForClipping"
                     [] ops[1].i = 5 -> "StrokeTextAndAddToPathForClipping"
                     [] ops[1].i = 6 -> "FillThenStrokeTextAndAddToPathForClipping"
                     [] ops[1].i = 7 -> "AddTextToPathForClipping"]
    ELSE Unknown(op, ops)

\* ("v", [x2, y2, x3, y3])
arm_v(op, ops) ==
    IF Len(ops) = 4
    THEN IF \A n \in 1..4 : IsF(ops[n])
         THEN [tag |-> "AppendCurvedSegmentToPathInitialPointReplicated",
               x2 |-> F(ops[1]), y2 |-> F(ops[2]),
               x3 |-> F(ops[3]), y3 |-> F(ops[4])]
         ELSE Unknown(op, ops)
    ELSE Unknown(op, ops)

\* ("y", [x1, y1, x3, y3])
arm_y(op, ops) ==
    IF Len(ops) = 4
    THEN IF \A n \in 1..4 : IsF(ops[n])
         THEN [tag |-> "AppendCurvedSegmentToPathFinalPointReplicated",
               x1 |-> F(ops[1]), y1 |-> F(ops[2]),
               x3 |-> F(ops[3]), y3 |-> F(ops[4])]
         ELSE Unknown(op, ops)
    ELSE Unknown(op, ops)

\* ("\"", [word_spacing, character_spacing, Primitive::String(text)])
arm_quote(op, ops, cf) ==
    IF Len(ops) = 3 /\ ops[3].t = "String"
    THEN LET r == decode_string(ops[3].bytes, cf)
         IN  IF Panicked(r) THEN Panic
             ELSE IF IsF(ops[1]) /\ IsF(ops[2]) /\ r.ok
             THEN [tag |-> "SetWordAndCharacterSpacingMoveToNextLineAndShowText",
                   word_spacing |-> F(ops[1]),
                   character_spacing |-> F(ops[2]),
                   text |-> r.val]
             ELSE Unknown(op, ops)
    ELSE Unknown(op, ops)

----------------------------------------------------------------------------
(* normalize_operation_with_font: match (operator.as_str(), operands.as_slice()) *)

normalize_operation_with_font(op, ops, cf) ==
    CASE op = "b" -> arm_any("CloseFillAndStrokePathUsingNonZeroWindingNumber", op, ops)
      [] op = "B" -> arm_any("FillAndStrokePathUsingNonZeroWindingNumber", op, ops)
      [] op = "b*" -> arm_any("CloseFillAndStrokePathUsingEvenOddRule", op, ops)
      [] op = "B*" -> arm_any("FillAndStrokePathUsingEvenOddRule", op, ops)
      [] op = "BDC" -> arm_empty("BeginMarkedContentSequenceWithPropertyList", op, ops)
      [] op = "BI" -> arm_empty("BeginInlineImageObject", op, ops)
      [] op = "BMC" -> arm_empty("BeginMarkedContentSequence", op, ops)
      [] op = "BT" -> arm_any("BeginTextObject", op, ops)
      [] op = "BX" -> arm_empty("BeginCompatibilitySection", op, ops)
      [] op = "c" -> arm_c(op, ops)
      [] op = "cm" -> arm_cm(op, ops)
      [] op = "CS" -> arm_name("SetColorSpaceForStrokingOperations", op, ops)
      [] op = "cs" -> arm_name("SetColorSpaceForNonStrokingOperations", op, ops)
      [] op = "d" -> arm_d(op, ops)
      [] op = "d0" -> arm_d0(op, ops)
      [] op = "d1" -> arm_d1(op, ops)
      [] op = "Do" -> arm_name("InvokeNamedXObject", op, ops)
      [] op = "DP" -> arm_empty("DefineMarkedContentPointWithPropertyList", op, ops)
      [] op = "EI" -> arm_empty("EndInlineImageObject", op, ops)
      [] op = "EMC" -> arm_empty("EndMarkedContentSequence", op, ops)
      [] op = "ET" -> arm_any("EndTextObject", op, ops)
      [] op = "EX" -> arm_empty("EndCompatibilitySection", op, ops)
      [] op = "f" -> arm_any("FillPathUsingNonZeroWindingNumberRule", op, ops)
      [] op = "F" -> arm_any("ObsoleteFillPathUsingNonZeroWindingMumberRule", op, ops)
      [] op = "f*" -> arm_any("FillPathUsingEvenOddRule", op, ops)
      [] op = "G" -> arm_number_or_integer("SetGrayLevelForStrokingOperations", op, ops)
      [] op = "g" -> arm_number_or_integer("SetGrayLevelForNonStrokingOperations", op, ops)
      [] op = "gs" -> arm_name("SetParametersFromGraphicsStateParameterDictionary", op, ops)
      [] op = "h" -> arm_any("CloseSubpath", op, ops)
      [] op = "i" -> arm_i(op, ops)
      [] op = "ID" -> arm_empty("BeginInlineImageData", op, ops)
      [] op = "j" -> arm_j(op, ops)
      [] op = "J" -> arm_J(op, ops)
      [] op = "K" -> arm_cmyk("SetCMYKColorForStrokingOperations", op, ops)
      [] op = "k" -> arm_cmyk("SetCMYKColorForNonStrokingOperations", op, ops)
      [] op = "l" -> arm_xy("AppendStraightLineSegmentToPath", op, ops)
      [] op = "m" -> arm_xy("BeginNewSubpath", op, ops)
      [] op = "M" -> arm_one("SetMiterLimit", op, ops)
      [] op = "MP" -> arm_name("DefineMarkedContentPoint", op, ops)
      [] op = "n" -> arm_any("EndPathWithoutFillingOrStroking", op, ops)
      [] op = "q" -> arm_any("SaveGraphicsState", op, ops)
      [] op = "Q" -> arm_any("RestoreGraphicsState", op, ops)
      [] op = "re" -> arm_re(op, ops)
      [] op = "RG" -> arm_rgb("SetRGBColorForStrokingOperations", op, ops)
      [] op = "rg" -> arm_rgb("SetRGBColorForNonStrokingOperations", op, ops)
      [] op = "ri" -> arm_ri(op, ops)
      [] op = "s" -> arm_any("CloseAndStrokePath", op, ops)
      [] op = "S" -> arm_any("StrokePath", op, ops)
      [] op = "SC" -> arm_sc("SetColorForStrokingOperations", op, ops)
      [] op = "sc" -> arm_sc("SetColorForNonStrokingOperations", op, ops)
      [] op = "SCN" ->
            arm_scn("SetColorForStrokingOperationsICCBasedAndSpecialColorSpaces", op, ops)
      [] op = "scn" ->
            arm_scn("SetColorForNonStrokingOperationsICCBasedAndSpecialColorSpaces", op, ops)
      [] op = "sh" -> arm_name("PaintAreaDefinedByShadingPattern", op, ops)
      [] op = "T*" -> arm_any("MoveToStartOfNextTextLine", op, ops)
      [] op = "Tc" -> arm_number_or_integer("SetCharacterSpacing", op, ops)
      [] op = "Td" -> arm_xy("MoveTextPosition", op, ops)
      [] op = "TD" -> arm_xy("MoveTextPositionAndSetLeading", op, ops)
      [] op = "Tf" -> arm_Tf(op, ops)
      [] op = "Tj" -> arm_show("ShowText", op, ops, cf)
      [] op = "TJ" -> arm_TJ(op, ops, cf)
      [] op = "TL" -> arm_TL(op, ops)
      [] op = "Tm" -> arm_Tm(op, ops)
      [] op = "Tr" -> arm_Tr(op, ops)
      [] op = "Ts" -> arm_one("SetTextRise", op, ops)
      [] op = "Tw" -> arm_one("SetWordSpacing", op, ops)
      [] op = "Tz" -> arm_one("SetHorizontalTextScaling", op, ops)
      [] op = "v" -> arm_v(op, ops)
      [] op = "w" -> arm_number_or_integer("SetLineWidth", op, ops)
      [] op = "W" -> arm_any("SetClippingPathUsingNonZeroWindingNumberRule", op, ops)
      [] op = "W*" -> arm_any("SetClippingPathUsingEvenOddRule", op, ops)
      [] op = "y" -> arm_y(op, ops)
      [] op = "'" -> arm_show("MoveToNextLineAndShowText", op, ops, cf)
      [] op = "\"" -> arm_quote(op, ops, cf)
      [] OTHER -> Unknown(op, ops)

\* normalize_operation keeping the text it last decoded and showing it again
normalize_operation_remembering(op, ops) ==
    IF op = "Tj" /\ ~Panicked(result) /\ result.tag = "ShowText" THEN result
    ELSE normalize_operation_with_font(op, ops, None)

\* pub fn normalize_operation(operation) = normalize_operation_with_font(operation, None)
normalize_operation(op, ops) == normalize_operation_with_font(op, ops, None)

----------------------------------------------------------------------------
(* The inputs the model draws from *)

Seqs(S, n) == UNION {[1..k -> S] : k \in 0..n}

\* every operator name of the match, and one name it does not know
KnownOperators ==
    {"b", "B", "b*", "B*", "BDC", "BI", "BMC", "BT", "BX", "c", "cm", "CS", "cs",
     "d", "d0", "d1", "Do", "DP", "EI", "EMC", "ET", "EX", "f", "F", "f*", "G",
     "g", "gs", "h", "i", "ID", "j", "J", "K", "k", "l", "m", "M", "MP", "n",
     "q", "Q", "re", "RG", "rg", "ri", "s", "S", "SC", "sc", "SCN", "scn", "sh",
     "T*", "Tc", "Td", "TD", "Tf", "Tj", "TJ", "TL", "Tm", "Tr", "Ts", "Tw",
     "Tz", "v", "w", "W", "W*", "y", "'", "\""}
Operators == KnownOperators \cup {"zz"}

Ints == 0..MaxInt
Halves == 0..(2 * MaxInt)
Names == {"Cs0", "Perceptual"}
Bytes == {0, 65, 66, 153, 194}
Strings == Seqs(Bytes, MaxStrLen)
FewStrings == {<<>>, <<65>>, <<153>>}
ArrayElems ==
    {Integer(1), Number(1), Name("Cs0"), String(<<65>>), String(<<153>>)}
Arrays == {Array(e) : e \in Seqs(ArrayElems, MaxArrayLen)}
FewArrays == {Array(<<>>), Array(<<Integer(1)>>), Array(<<Name("Cs0")>>)}

Prims ==
    {Integer(n) : n \in Ints} \cup {Number(h) : h \in Halves}
        \cup {Name(s) : s \in Names} \cup {String(b) : b \in FewStrings}
        \cup FewArrays \cup {Null}
LongAlphabet == {Integer(1), Number(1), Name("Cs0")}
SixAlphabet == {Integer(0), Integer(1), Number(1), Number(2), Name("Cs0")}
SixOperators == {"c", "cm", "d1", "Tm"}

\* cmaps: every sub-map of these code -> text entries
CMapText == (65 :> <<65>>) @@ (66 :> <<66>>) @@ (16640 :> <<88>>) @@ (153 :> <<8364>>)
CMaps == {[c \in D |-> CMapText[c]] : D \in SUBSET (DOMAIN CMapText)}
EmptyCMap == [c \in {} |-> <<>>]

FontInfo(enc, cmap) == [encoding |-> enc, cmap |-> cmap]
Fonts ==
    {None}
        \cup {Some(FontInfo(None, m)) : m \in {EmptyCMap, CMapText}}
        \cup {Some(FontInfo(Some(e), m)) :
                e \in {"IdentityH", "WinAnsiEncoding"}, m \in CMaps}
FewFonts ==
    {None, Some(FontInfo(None, CMapText)), Some(FontInfo(Some("IdentityH"), CMapText)),
     Some(FontInfo(Some("WinAnsiEncoding"), EmptyCMap))}

Inputs ==
    (Operators \X Seqs(Prims, 2) \X FewFonts)
        \cup (Operators \X Seqs(LongAlphabet, MaxOperands) \X {None})
        \cup (SixOperators \X [1..6 -> SixAlphabet] \X {None})
        \cup ({"Tj"} \X {<<String(b)>> : b \in Strings} \X Fonts)
        \cup ({"TJ"} \X {<<a>> : a \in Arrays} \X Fonts)
        \cup ({"d"} \X {<<a, p>> : a \in Arrays, p \in LongAlphabet} \X {None})
        \cup ({"\""} \X {<<w, c, String(b)>> :
                            w \in LongAlphabet, c \in LongAlphabet, b \in FewStrings}
                \X FewFonts)

----------------------------------------------------------------------------
(* The caller: one instruction handed to the normalizer, and its return *)

NoResult == [tag |-> "NoResult"]
Call(r) == [operator |-> operator, operands |-> operands,
            current_font |-> current_font, result |-> r]

Init ==
    \E inp \in Inputs :
        /\ operator = inp[1]
        /\ operands = inp[2]
        /\ current_font = inp[3]
        /\ result = NoResult
        /\ pc = "ready"
        /\ first = None
        /\ calls = 0

Returned(r) ==
    /\ result' = r
    /\ pc' = "done"
    /\ first' = IF first = None THEN Some(Call(r)) ELSE first
    /\ calls' = calls + 1
    /\ UNCHANGED <<operator, operands, current_font>>

\* a caller without font tracking (src/bin/check.rs)
NormalizeOperation ==
    /\ pc = "ready"
    /\ current_font = None
    /\ Returned(normalize_operation(operator, operands))

NormalizeOperationWithFont ==
    /\ pc = "ready"
    /\ Returned(normalize_operation_with_font(operator, operands, current_font))

Next == NormalizeOperation \/ NormalizeOperationWithFont

Spec == Init /\ [][Next]_vars

----------------------------------------------------------------------------
(* A caller that classifies one instruction after another, changing the    *)
(* font it passes as it goes (the loop of src/bin/check.rs, with the font  *)
(* tracking the normalizer leaves to its caller).                          *)

SeqInstructions ==
    {<<"Tj", <<String(<<65>>)>>>>,
     <<"Tj", <<String(<<153>>)>>>>,
     <<"TJ", <<Array(<<String(<<153>>), Integer(1)>>)>>>>,
     <<"Tf", <<Name("Cs0"), Integer(1)>>>>,
     <<"Tm", <<Integer(1), Integer(0), Integer(0), Integer(1), Number(1), Integer(2)>>>>,
     <<"re", <<Integer(1), Name("Cs0"), Integer(1), Integer(1)>>>>,
     <<"zz", <<Integer(1), String(<<65>>)>>>>}
SeqInputs == {<<i[1], i[2], f>> : i \in SeqInstructions, f \in FewFonts}

InitSeq ==
    \E inp \in SeqInputs :
        /\ operator = inp[1]
        /\ operands = inp[2]
        /\ current_font = inp[3]
        /\ result = NoResult
        /\ pc = "ready"
        /\ first = None
        /\ calls = 0

\* for operation in &contents.operations: the next instruction, and the
\* font then in effect
NextInstruction ==
    /\ pc = "done"
    /\ calls < MaxCalls
    /\ \E inp \in SeqInputs :
        /\ operator' = inp[1]
        /\ operands' = inp[2]
        /\ current_font' = inp[3]
    /\ pc' = "ready"
    /\ UNCHANGED <<result, first, calls>>

NextSeq == NormalizeOperation \/ NormalizeOperationWithFont \/ NextInstruction

SpecSeq == InitSeq /\ [][NextSeq]_vars

----------------------------------------------------------------------------
(* What the claims speak of *)

\* every variant of enum Operation
OperationVariants ==
    {"CloseFillAndStrokePathUsingNonZeroWindingNumber",
     "FillAndStrokePathUsingNonZeroWindingNumber",
     "CloseFillAndStrokePathUsingEvenOddRule",
     "FillAndStrokePathUsingEvenOddRule",
     "BeginMarkedContentSequenceWithPropertyList",
     "BeginInlineImageObject", "BeginMarkedContentSequence", "BeginTextObject",
     "BeginCompatibilitySection", "AppendCurvedSegmentToPath",
     "ConcatenateMatrixToCurrentTransformationMatrix",
     "SetColorSpaceForStrokingOperations",
     "SetColorSpaceForNonStrokingOperations", "SetLineDashPattern",
     "SetGlyphWidthInType3Font", "SetGlyphWidthAndBoundingBoxInType3Font",
     "InvokeNamedXObject", "DefineMarkedContentPointWithPropertyList",
     "EndInlineImageObject", "EndMarkedContentSequence", "EndTextObject",
     "EndCompatibilitySection", "FillPathUsingNonZeroWindingNumberRule",
     "ObsoleteFillPathUsingNonZeroWindingMumberRule", "FillPathUsingEvenOddRule",
     "SetGrayLevelForStrokingOperations", "SetGrayLevelForNonStrokingOperations",
     "SetParametersFromGraphicsStateParameterDictionary", "CloseSubpath",
     "SetFlatnessTolerance", "BeginInlineImageData", "SetLineJoinStyle",
     "SetLineCapStyle", "SetCMYKColorForStrokingOperations",
     "SetCMYKColorForNonStrokingOperations", "AppendStraightLineSegmentToPath",
     "BeginNewSubpath", "SetMiterLimit", "DefineMarkedContentPoint",
     "EndPathWithoutFillingOrStroking", "SaveGraphicsState",
     "RestoreGraphicsState", "AppendRectangleToPath",
     "SetRGBColorForStrokingOperations", "SetRGBColorForNonStrokingOperations",
     "SetColorRenderingIntent", "CloseAndStrokePath", "StrokePath",
     "SetColorForStrokingOperations", "SetColorForNonStrokingOperations",
     "SetColorForStrokingOperationsICCBasedAndSpecialColorSpaces",
     "SetColorForNonStrokingOperationsICCBasedAndSpecialColorSpaces",
     "PaintAreaDefinedByShadingPattern", "MoveToStartOfNextTextLine",
     "SetCharacterSpacing", "MoveTextPosition", "MoveTextPositionAndSetLeading",
     "SetTextFontAndSize", "ShowText",
     "ShowTextAllowingIndividualGlyphPositioning", "SetTextLeading",
     "SetTextMatrixAndTextLineMatrix", "SetTextRenderingMode", "SetTextRise",
     "SetWordSpacing", "SetHorizontalTextScaling",
     "AppendCurvedSegmentToPathInitialPointReplicated", "SetLineWidth",
     "SetClippingPathUsingNonZeroWindingNumberRule",
     "SetClippingPathUsingEvenOddRule",
     "AppendCurvedSegmentToPathFinalPointReplicated",
     "MoveToNextLineAndShowText",
     "SetWordAndCharacterSpacingMoveToNextLineAndShowText", "Unknown"}

Done == pc = "done"
IsOperation(r) == ~Panicked(r) /\ r.tag \in OperationVariants
IsUnknown(r) == ~Panicked(r) /\ r.tag = "Unknown"
IsVariant(r, variant) == ~Panicked(r) /\ r.tag = variant

\* the value an integer or real operand stands for, in halves: N is N.0
IsNumeric(p) == p.t \in {"Integer", "Number"}
Value(p) == IF p.t = "Integer" THEN 2 * p.i ELSE p.f
AllNumeric(ops) == \A k \in 1..Len(ops) : IsNumeric(ops[k])
Values(ops) == [k \in 1..Len(ops) |-> Value(ops[k])]

\* the fields of a typed variant, in the order the enum declares them
Fields(r) ==
    CASE r.tag \in {"AppendStraightLineSegmentToPath", "BeginNewSubpath",
                    "MoveTextPosition", "MoveTextPositionAndSetLeading"} ->
            <<r.x, r.y>>
      [] r.tag = "AppendRectangleToPath" -> <<r.x, r.y, r.width, r.height>>
      [] r.tag = "AppendCurvedSegmentToPathInitialPointReplicated" ->
            <<r.x2, r.y2, r.x3, r.y3>>
      [] r.tag = "AppendCurvedSegmentToPathFinalPointReplicated" ->
            <<r.x1, r.y1, r.x3, r.y3>>
      [] r.tag = "AppendCurvedSegmentToPath" ->
            <<r.x1, r.y1, r.x2, r.y2, r.x3, r.y3>>
      [] r.tag \in {"ConcatenateMatrixToCurrentTransformationMatrix",
                    "SetTextMatrixAndTextLineMatrix"} ->
            <<r.v0, r.v1, r.v2, r.v3, r.v4, r.v5>>
      [] r.tag = "SetGlyphWidthInType3Font" -> <<r.wx, r.wy>>
      [] r.tag = "SetGlyphWidthAndBoundingBoxInType3Font" ->
            <<r.wx, r.wy, r.llx, r.lly, r.urx, r.ury>>
      [] r.tag \in {"SetCMYKColorForStrokingOperations",
                    "SetCMYKColorForNonStrokingOperations"} ->
            <<r.v0, r.v1, r.v2, r.v3>>
      [] r.tag \in {"SetRGBColorForStrokingOperations",
                    "SetRGBColorForNonStrokingOperations"} ->
            <<r.v0, r.v1, r.v2>>
      [] r.tag \in {"SetMiterLimit", "SetTextRise", "SetWordSpacing",
                    "SetHorizontalTextScaling", "SetGrayLevelForStrokingOperations",
                    "SetGrayLevelForNonStrokingOperations", "SetLineWidth",
                    "SetCharacterSpacing", "SetTextLeading"} ->
            <<r.v0>>

\* the operators of a fixed numeric shape: how many numbers, which variant
FixedShape ==
    [op \in {"l", "m", "re", "v", "y", "c", "cm", "d0", "d1", "K", "k", "RG",
             "rg", "Td", "TD", "M", "Ts", "Tw", "Tz"} |->
        CASE op = "l" -> <<2, "AppendStraightLineSegmentToPath">>
          [] op = "m" -> <<2, "BeginNewSubpath">>
          [] op = "re" -> <<4, "AppendRectangleToPath">>
          [] op = "v" -> <<4, "AppendCurvedSegmentToPathInitialPointReplicated">>
          [] op = "y" -> <<4, "AppendCurvedSegmentToPathFinalPointReplicated">>
          [] op = "c" -> <<6, "AppendCurvedSegmentToPath">>
          [] op = "cm" -> <<6, "ConcatenateMatrixToCurrentTransformationMatrix">>
          [] op = "d0" -> <<2, "SetGlyphWidthInType3Font">>
          [] op = "d1" -> <<6, "SetGlyphWidthAndBoundingBoxInType3Font">>
          [] op = "K" -> <<4, "SetCMYKColorForStrokingOperations">>
          [] op = "k" -> <<4, "SetCMYKColorForNonStrokingOperations">>
          [] op = "RG" -> <<3, "SetRGBColorForStrokingOperations">>
          [] op = "rg" -> <<3, "SetRGBColorForNonStrokingOperations">>
          [] op = "Td" -> <<2, "MoveTextPosition">>
          [] op = "TD" -> <<2, "MoveTextPositionAndSetLeading">>
          [] op = "M" -> <<1, "SetMiterLimit">>
          [] op = "Ts" -> <<1, "SetTextRise">>
          [] op = "Tw" -> <<1, "SetWordSpacing">>
          [] op = "Tz" -> <<1, "SetHorizontalTextScaling">>]

----------------------------------------------------------------------------
(* C1 *)

\* C1: normalize_operation_with_font is total: for every operator name,
\* operand list and font state the call returns some Operation value; it
\* never aborts and never signals an error.
C1_Total == Done => IsOperation(result)

\* an Identity-H font and a string of odd length, classified
C1_Witness ==
    /\ Done
    /\ operator = "Tj"
    /\ operands = <<String(<<0, 65, 0>>)>>
    /\ current_font = Some(FontInfo(Some("IdentityH"), CMapText))
    /\ IsVariant(result, "ShowText")

----------------------------------------------------------------------------
(* C2 *)

\* C2: whenever the result is Unknown, for an unrecognized operator or for a
\* recognized one whose operands failed validation, it carries exactly the
\* input operator name and the complete input operand list, in order.
C2_UnknownPreserves ==
    Done /\ IsUnknown(result) =>
        result = [tag |-> "Unknown", operator |-> operator, operands |-> operands]

\* operator "zz" with an integer and a string
C2_Witness ==
    /\ Done
    /\ operator = "zz"
    /\ operands = <<Integer(1), String(<<65>>)>>
    /\ result = [tag |-> "Unknown", operator |-> "zz",
                 operands |-> <<Integer(1), String(<<65>>)>>]

----------------------------------------------------------------------------
(* C4 *)

\* C4: for every operator of a fixed numeric shape, exactly that shape (the
\* required count, every operand an integer or a real) yields the typed
\* variant whose fields are the coerced operands in positional order, and
\* every other shape yields Unknown with the operator and operands untouched.
C4_FixedShape ==
    Done /\ operator \in DOMAIN FixedShape =>
        IF Len(operands) = FixedShape[operator][1] /\ AllNumeric(operands)
        THEN /\ IsVariant(result, FixedShape[operator][2])
             /\ Fields(result) = Values(operands)
        ELSE result = [tag |-> "Unknown", operator |-> operator,
                       operands |-> operands]

----------------------------------------------------------------------------
(* C5 *)

\* C5: c, cm and Tm produce a typed variant only when the raw operand list
\* holds exactly six operands and every one is an integer or a real; in every
\* other case, whatever the length of the list, the result is Unknown.
C5_SixNumbersOnly ==
    Done /\ operator \in {"c", "cm", "Tm"} =>
        (~IsUnknown(result) => Len(operands) = 6 /\ AllNumeric(operands))

----------------------------------------------------------------------------
(* C3 *)

SameInputsAsFirst ==
    /\ first # None
    /\ operator = first[1].operator
    /\ operands = first[1].operands
    /\ current_font = first[1].current_font

C3_Deterministic == Done /\ SameInputsAsFirst => result = first[1].result

C3_Frame ==
    pc = "ready" /\ pc' = "done" =>
        operator' = operator /\ operands' = operands /\ current_font' = current_font

----------------------------------------------------------------------------
(* C6 *)

SingleNumberOperators == {"G", "g", "w", "Tc", "TL", "M", "Ts", "Tw", "Tz", "i"}

\* operand k, an integer N, written as the real N.0
AsReal(ops, k) == [ops EXCEPT ![k] = Number(2 * ops[k].i)]

\* the same Operation; two Unknowns count as the same, since each carries
\* its own raw operands
SameOperation(r1, r2) ==
    IF IsUnknown(r1) \/ IsUnknown(r2) THEN IsUnknown(r1) /\ IsUnknown(r2)
    ELSE r1 = r2

\* C6: numeric coercion is representation-independent: an operator given the
\* integer operand N and given the real operand N.0, all else equal, yields
\* identical Operations; this covers G, g, w, Tc, TL, M, Ts, Tw, Tz, i, the
\* size of Tf and the operators of a fixed numeric shape.
C6_RepresentationIndependent ==
    Done /\ operator \in SingleNumberOperators \cup {"Tf"} \cup DOMAIN FixedShape =>
        \A k \in 1..Len(operands) :
            operands[k].t = "Integer" =>
                SameOperation(result,
                    normalize_operation_with_font(operator, AsReal(operands, k),
                                                  current_font))

----------------------------------------------------------------------------
(* C7 *)

IntentNames ==
    {"AbsoluteColorimetric", "RelativeColorimetric", "Saturation", "Perceptual"}
IsNumbers(ops, n) == Len(ops) = n /\ AllNumeric(ops)
IsNameOperand(ops) == Len(ops) = 1 /\ ops[1].t = "Name"

\* a string operand whose bytes are plain ASCII text, which decodes under
\* every font state
IsTextOperand(p) == p.t = "String" /\ \A k \in 1..Len(p.bytes) : p.bytes[k] < 128

\* the operands PDF defines for each operator (ISO 32000-1, Annex A); a
\* property list is given as the name of a resource, shown text is ASCII
WellFormed(op, ops) ==
    CASE op \in {"b", "B", "b*", "B*", "BT", "ET", "f", "F", "f*", "h", "n", "q",
                 "Q", "s", "S", "T*", "W", "W*", "BX", "EX", "EMC"} -> ops = <<>>
      [] op \in {"BMC", "MP", "CS", "cs", "Do", "gs", "sh"} -> IsNameOperand(ops)
      [] op \in {"BDC", "DP"} ->
            Len(ops) = 2 /\ ops[1].t = "Name" /\ ops[2].t = "Name"
      [] op = "ri" -> IsNameOperand(ops) /\ ops[1].name \in IntentNames
      [] op \in SingleNumberOperators -> IsNumbers(ops, 1)
      [] op \in {"j", "J"} ->
            Len(ops) = 1 /\ ops[1].t = "Integer" /\ ops[1].i \in 0..2
      [] op = "Tr" -> Len(ops) = 1 /\ ops[1].t = "Integer" /\ ops[1].i \in 0..7
      [] op \in DOMAIN FixedShape -> IsNumbers(ops, FixedShape[op][1])
      [] op = "Tm" -> IsNumbers(ops, 6)
      [] op \in {"SC", "sc"} -> Len(ops) \in {1, 3, 4} /\ AllNumeric(ops)
      [] op \in {"SCN", "scn"} ->
            /\ Len(ops) >= 1
            /\ \/ AllNumeric(ops)
               \/ ops[Len(ops)].t = "Name" /\ AllNumeric(SubSeq(ops, 1, Len(ops) - 1))
      [] op = "Tf" -> Len(ops) = 2 /\ ops[1].t = "Name" /\ IsNumeric(ops[2])
      [] op \in {"Tj", "'"} -> Len(ops) = 1 /\ IsTextOperand(ops[1])
      [] op = "\"" ->
            /\ Len(ops) = 3
            /\ IsNumeric(ops[1]) /\ IsNumeric(ops[2]) /\ IsTextOperand(ops[3])
      [] op = "TJ" ->
            /\ Len(ops) = 1 /\ ops[1].t = "Array"
            /\ \A k \in 1..Len(ops[1].elems) :
                    IsNumeric(ops[1].elems[k]) \/ IsTextOperand(ops[1].elems[k])
      [] op = "d" ->
            /\ Len(ops) = 2 /\ ops[1].t = "Array" /\ IsNumeric(ops[2])
            /\ AllNumeric(ops[1].elems)
      [] OTHER -> FALSE

\* C7: every instruction of a well-formed content stream, one that holds only
\* PDF-defined operators each with the operands PDF defines for it, is
\* classified as something other than Unknown.
C7_NoUnknownOnWellFormed ==
    Done /\ WellFormed(operator, operands) => ~IsUnknown(result)

----------------------------------------------------------------------------
(* C8 *)

\* C8: Tm with six numeric operands (a, b, c, d, tx, ty) yields
\* MoveTextPosition with x = tx and y = ty when a = 1, b = 0, c = 0 and d = 1,
\* and for every other (a, b, c, d) SetTextMatrixAndTextLineMatrix with all
\* six components unchanged and in order.
C8_TextMatrix ==
    Done /\ operator = "Tm" /\ IsNumbers(operands, 6) =>
        LET v == Values(operands)
        IN  IF v[1] = 2 /\ v[2] = 0 /\ v[3] = 0 /\ v[4] = 2
            THEN result = [tag |-> "MoveTextPosition", x |-> v[5], y |-> v[6]]
            ELSE /\ IsVariant(result, "SetTextMatrixAndTextLineMatrix")
                 /\ Fields(result) = v

\* the identity written with an integer and a real 1, moving by (0.5, 1)
C8_Witness ==
    /\ Done
    /\ operator = "Tm"
    /\ operands = <<Integer(1), Integer(0), Integer(0), Number(2), Number(1), Integer(1)>>
    /\ result = [tag |-> "MoveTextPosition", x |-> 1, y |-> 2]

----------------------------------------------------------------------------
(* C9 *)

ColorOf(v) ==
    CASE Len(v) = 1 -> [space |-> "DeviceGrayCalGrayOrIndexed", c0 |-> v[1]]
      [] Len(v) = 3 ->
            [space |-> "DeviceRGBCalRGBOrLab", c0 |-> v[1], c1 |-> v[2], c2 |-> v[3]]
      [] Len(v) = 4 ->
            [space |-> "DeviceCMYK", c0 |-> v[1], c1 |-> v[2], c2 |-> v[3],
             c3 |-> v[4]]

\* C9: SC and sc are polymorphic on arity: one, three or four numeric
\* operands yield the gray/indexed, RGB/Lab or CMYK colour with the components
\* in input order, SC as the stroking and sc as the non-stroking operation;
\* every other operand count and any non-numeric operand yields Unknown.
C9_SetColor ==
    Done /\ operator \in {"SC", "sc"} =>
        IF Len(operands) \in {1, 3, 4} /\ AllNumeric(operands)
        THEN result =
                [tag |-> IF operator = "SC" THEN "SetColorForStrokingOperations"
                         ELSE "SetColorForNonStrokingOperations",
                 color |-> ColorOf(Values(operands))]
        ELSE IsUnknown(result)

\* sc with four components, 1 0.5 0.5 1
C9_Witness ==
    /\ Done
    /\ operator = "sc"
    /\ operands = <<Integer(1), Number(1), Number(1), Integer(1)>>
    /\ IsVariant(result, "SetColorForNonStrokingOperations")
    /\ result.color = [space |-> "DeviceCMYK", c0 |-> 2, c1 |-> 1, c2 |-> 1,
                       c3 |-> 2]

----------------------------------------------------------------------------
(* C10 *)

\* C10: for SCN and scn, a final name operand is carried as the colour-space
\* resource name with the operands before it as the components; otherwise no
\* name is carried and all operands are the components; the components are in
\* input order, and a component that is no integer or real makes the result
\* Unknown.
C10_SetColorN ==
    Done /\ operator \in {"SCN", "scn"} =>
        LET n == Len(operands)
            named == n >= 1 /\ operands[n].t = "Name"
            comps == IF named THEN SubSeq(operands, 1, n - 1) ELSE operands
        IN  IF AllNumeric(comps)
            THEN result =
                    [tag |-> IF operator = "SCN"
                             THEN "SetColorForStrokingOperationsICCBasedAndSpecialColorSpaces"
                             ELSE "SetColorForNonStrokingOperationsICCBasedAndSpecialColorSpaces",
                     cs |-> Values(comps),
                     name |-> IF named THEN <<operands[n].name>> ELSE <<>>]
            ELSE IsUnknown(result)

\* SCN with two components and a pattern name
C10_Witness ==
    /\ Done
    /\ operator = "SCN"
    /\ operands = <<Integer(1), Number(1), Name("Cs0")>>
    /\ result = [tag |-> "SetColorForStrokingOperationsICCBasedAndSpecialColorSpaces",
                 cs |-> <<2, 1>>, name |-> <<"Cs0">>]

----------------------------------------------------------------------------
(* C11 *)

\* the named-resource operators and their variants
NamedResource ==
    [op \in {"CS", "cs", "Do", "gs", "MP", "sh"} |->
        CASE op = "CS" -> "SetColorSpaceForStrokingOperations"
          [] op = "cs" -> "SetColorSpaceForNonStrokingOperations"
          [] op = "Do" -> "InvokeNamedXObject"
          [] op = "gs" -> "SetParametersFromGraphicsStateParameterDictionary"
          [] op = "MP" -> "DefineMarkedContentPoint"
          [] op = "sh" -> "PaintAreaDefinedByShadingPattern"]

\* C11: CS, cs, Do, gs, MP and sh yield their typed variant, carrying the
\* given name, exactly when the operand list is a single name operand; an
\* empty list, a single operand of another type, or more than one operand
\* yields Unknown.
C11_NamedResource ==
    Done /\ operator \in DOMAIN NamedResource =>
        IF IsNameOperand(operands)
        THEN result = [tag |-> NamedResource[operator], name |-> operands[1].name]
        ELSE IsUnknown(result)

\* gs with the one name /Cs0
C11_Witness ==
    /\ Done
    /\ operator = "gs"
    /\ operands = <<Name("Cs0")>>
    /\ result = [tag |-> "SetParametersFromGraphicsStateParameterDictionary",
                 name |-> "Cs0"]

----------------------------------------------------------------------------
(* C12 *)

IsIdentityH(cf) == cf # None /\ cf[1].encoding = <<"IdentityH">>
HasEncoding(cf) == cf # None /\ cf[1].encoding # None
IsStringOperand(ops) == Len(ops) = 1 /\ ops[1].t = "String"

\* the cmap entries of the codes at bytes 0-1, 2-3, ..., in order; a code
\* without an entry contributes nothing
RECURSIVE PairwiseText(_, _)
PairwiseText(b, cmap) ==
    IF Len(b) < 2 THEN <<>>
    ELSE LET code == b[1] * 256 + b[2]
         IN  (IF code \in DOMAIN cmap THEN cmap[code] ELSE <<>>)
                \o PairwiseText(SubSeq(b, 3, Len(b)), cmap)

\* C12: under an Identity-H font the byte string is consumed two bytes at a
\* time, each pair a big-endian 16-bit code, and the text is the
\* concatenation of the cmap entries of exactly those codes, for every cmap,
\* also one that maps the code straddling two pairs.  Stated for the strings
\* of even length, where no trailing byte is left over.
C12_IdentityHPairs ==
    Done /\ operator = "Tj" /\ IsStringOperand(operands) /\ IsIdentityH(current_font)
        /\ Len(operands[1].bytes) % 2 = 0 =>
        result = [tag |-> "ShowText",
                  text |-> PairwiseText(operands[1].bytes, current_font[1].cmap)]

----------------------------------------------------------------------------
(* C13 *)

\* what one byte contributes under a single-byte encoding
ByteText(b, cmap) == IF b \in DOMAIN cmap THEN cmap[b] ELSE <<b>>

RECURSIVE Flatten(_)
Flatten(ss) == IF ss = <<>> THEN <<>> ELSE Head(ss) \o Flatten(Tail(ss))

\* C13: under a font whose encoding is not Identity-H the bytes are processed
\* one at a time in order, each giving its cmap entry when there is one and
\* otherwise the character whose code point is the byte; no byte is dropped
\* and the result is never an error.
C13_SingleByte ==
    Done /\ operator = "Tj" /\ IsStringOperand(operands)
        /\ HasEncoding(current_font) /\ ~IsIdentityH(current_font) =>
        LET b == operands[1].bytes
            cmap == current_font[1].cmap
        IN  result = [tag |-> "ShowText",
                      text |-> Flatten([k \in 1..Len(b) |-> ByteText(b[k], cmap)])]

\* a mapped byte between two unmapped ones
C13_Witness ==
    /\ Done
    /\ operator = "Tj"
    /\ operands = <<String(<<65, 153, 0>>)>>
    /\ current_font = Some(FontInfo(Some("WinAnsiEncoding"), 153 :> <<8364>>))
    /\ result = [tag |-> "ShowText", text |-> <<65, 8364, 0>>]

----------------------------------------------------------------------------
(* C14 *)

\* the operand lists the text-showing arms accept, before decoding
ShowsText(op, ops) ==
    CASE op \in {"Tj", "'"} -> IsStringOperand(ops)
      [] op = "\"" ->
            Len(ops) = 3 /\ IsNumeric(ops[1]) /\ IsNumeric(ops[2]) /\ ops[3].t = "String"
      [] op = "TJ" ->
            /\ Len(ops) = 1 /\ ops[1].t = "Array"
            /\ \A k \in 1..Len(ops[1].elems) :
                    ops[1].elems[k].t \in {"Integer", "Number", "String"}
      [] OTHER -> FALSE

\* the string operands of a text-showing instruction
StringsShown(op, ops) ==
    CASE op \in {"Tj", "'"} -> <<ops[1].bytes>>
      [] op = "\"" -> <<ops[3].bytes>>
      [] op = "TJ" ->
            LET e == ops[1].elems
                strs == SelectSeq(e, LAMBDA p : p.t = "String")
            IN  [k \in 1..Len(strs) |-> strs[k].bytes]

\* the text a typed text-showing variant carries, string by string
TextsShown(r) ==
    IF r.tag = "ShowTextAllowingIndividualGlyphPositioning"
    THEN LET txt == SelectSeq(r.array, LAMBDA e : e.k = "Text")
         IN  [k \in 1..Len(txt) |-> txt[k].text]
    ELSE <<r.text>>

TextVariant(op) ==
    CASE op = "Tj" -> "ShowText"
      [] op = "'" -> "MoveToNextLineAndShowText"
      [] op = "\"" -> "SetWordAndCharacterSpacingMoveToNextLineAndShowText"
      [] op = "TJ" -> "ShowTextAllowingIndividualGlyphPositioning"

\* C14: for Tj, ', " and TJ a decode error on the string operand, or on any
\* string of the TJ array, never escapes: the instruction is Unknown with its
\* own operator and operands; when every string decodes, the typed
\* text-showing variant carries the decoded text.
C14_DecodeErrorDegrades ==
    Done /\ ShowsText(operator, operands) =>
        LET strs == StringsShown(operator, operands)
            dec == [k \in 1..Len(strs) |-> decode_string(strs[k], current_font)]
        IN  IF \A k \in 1..Len(strs) : dec[k].ok
            THEN /\ IsVariant(result, TextVariant(operator))
                 /\ TextsShown(result) = [k \in 1..Len(strs) |-> dec[k].val]
            ELSE result = [tag |-> "Unknown", operator |-> operator,
                           operands |-> operands]

\* ' with bytes that are no text, and no font to decode them
C14_Witness ==
    /\ Done
    /\ operator = "'"
    /\ operands = <<String(<<153>>)>>
    /\ current_font = None
    /\ result = [tag |-> "Unknown", operator |-> "'",
                 operands |-> <<String(<<153>>)>>]

----------------------------------------------------------------------------
(* C15 *)

\* C15: with a font that has an encoding, Tj on a string always shows text,
\* whatever the bytes (empty, of odd length under Identity-H, all unmapped);
\* with a font that has no encoding the outcome is the one of the same
\* instruction with no font at all, so the cmap plays no part and a decode
\* error can arise on this path only.
C15_ErrorOnlyWithoutEncoding ==
    Done /\ operator = "Tj" /\ IsStringOperand(operands) =>
        IF HasEncoding(current_font)
        THEN IsVariant(result, "ShowText")
        ELSE LET r == as_str(operands[1].bytes)
             IN  IF r.ok
                 THEN result = [tag |-> "ShowText", text |-> r.val]
                 ELSE result = [tag |-> "Unknown", operator |-> operator,
                                operands |-> operands]

\* bytes that are no text, shown with a font that has a cmap for them but no
\* encoding
C15_Witness ==
    /\ Done
    /\ operator = "Tj"
    /\ operands = <<String(<<153>>)>>
    /\ current_font = Some(FontInfo(None, CMapText))
    /\ result = [tag |-> "Unknown", operator |-> "Tj",
                 operands |-> <<String(<<153>>)>>]

\* a string of odd length under Identity-H decodes
C15_OddIdentityH ==
    /\ Done
    /\ operator = "Tj"
    /\ IsStringOperand(operands)
    /\ Len(operands[1].bytes) = 3
    /\ IsIdentityH(current_font)
    /\ IsVariant(result, "ShowText")

----------------------------------------------------------------------------
(* C16 *)

\* the element of the typed array that an element of a TJ array becomes
GlyphElement(p, cf) ==
    IF p.t = "String"
    THEN [k |-> "Text", text |-> decode_string(p.bytes, cf).val]
    ELSE [k |-> "GlyphPositioning", g |-> Value(p)]

\* an element of a TJ array that the filter keeps
GlyphElementKept(p, cf) ==
    \/ IsNumeric(p)
    \/ p.t = "String" /\ decode_string(p.bytes, cf).ok

\* C16: d is SetLineDashPattern only for operands [array, phase] with every
\* element of the array and the phase an integer or a real; TJ is
\* ShowTextAllowingIndividualGlyphPositioning only for a single array whose
\* elements are numbers or strings that decode; the typed array then has one
\* element per source element, in the same order; otherwise the instruction
\* is Unknown.
C16_ArrayElementwise ==
    /\ Done /\ operator = "d" =>
        IF /\ Len(operands) = 2
           /\ operands[1].t = "Array"
           /\ AllNumeric(operands[1].elems)
           /\ IsNumeric(operands[2])
        THEN result = [tag |-> "SetLineDashPattern",
                       array |-> Values(operands[1].elems),
                       phase |-> Value(operands[2])]
        ELSE IsUnknown(result)
    /\ Done /\ operator = "TJ" =>
        IF /\ Len(operands) = 1
           /\ operands[1].t = "Array"
           /\ \A k \in 1..Len(operands[1].elems) :
                    GlyphElementKept(operands[1].elems[k], current_font)
        THEN LET e == operands[1].elems
             IN  result = [tag |-> "ShowTextAllowingIndividualGlyphPositioning",
                           array |-> [k \in 1..Len(e) |->
                                        GlyphElement(e[k], current_font)]]
        ELSE IsUnknown(result)

\* a dash array with one element that is no number
C16_Witness ==
    /\ Done
    /\ operator = "d"
    /\ operands = <<Array(<<Integer(1), Name("Cs0")>>), Integer(1)>>
    /\ IsUnknown(result)

\* a dash array of an integer and a real, kept in order
C16_TypedDash ==
    /\ Done
    /\ operator = "d"
    /\ operands = <<Array(<<Integer(1), Number(1)>>), Integer(1)>>
    /\ result = [tag |-> "SetLineDashPattern", array |-> <<2, 1>>, phase |-> 2]

====
